---- MODULE Spec2Model ----
(***************************************************************************)
(* Model of the MatchPlay -> Slack tournament monitor.                     *)
(*                                                                         *)
(*   monitor_tournament.py : module globals, load_config,                  *)
(*                           extract_tournament_id                         *)
(*   slack_notifier.py     : SlackNotifier.send_message and the notify_*   *)
(*                           methods that end in one send_message call     *)
(*                                                                         *)
(* The polling loop itself is not part of the source files; it is modelled *)
(* from sections 4.1 and 7 of the specification (the Iteration actions).   *)
(***************************************************************************)
EXTENDS Integers, Sequences, FiniteSets, TLC

VARIABLES
    \* ---- extract_tournament_id harness
    url,                    \* the argument: [isStr, s], s a token sequence
    idResult,               \* [done, raised, found, id]
    \* ---- load_config harness
    cfgFile,                \* the file system's answer for config.json
    cfgResult,              \* [done, raised, kind, dict]
    \* ---- send_message harness
    sendInput,              \* [channel, blocks, attachments, resp]
    lastSend,               \* [done, payload, posts, ok, raised]
    \* ---- polling loop
    pc,                     \* "iterate" | "sleep" | "done"
    now,                    \* wall clock, minutes since process start
    config,                 \* the dict load_config returned
    last_standings_update,  \* monitor_tournament.py:29
    processed_rounds,       \* monitor_tournament.py:30
    processed_games,        \* monitor_tournament.py:31
    tournament_status,      \* monitor_tournament.py:32
    \* ---- observation history of the loop (what was seen, what was sent)
    activeSeen,             \* rounds some successful poll observed active
    completedSeen,          \* games some successful poll observed completed
    reobserved,             \* some poll observed an id already recorded
    roundPosts,             \* round id -> webhook POSTs made for its start
    gamePosts,              \* game id  -> webhook POSTs made for its result
    standingsCount,         \* standings notifications emitted so far
    standingsSentAt,        \* time of the latest standings notification
    prevStatus,             \* tournament_status before the latest observation
    lastOutcome             \* how the latest iteration ended

vars == << url, idResult, cfgFile, cfgResult, sendInput, lastSend, pc, now,
           config, last_standings_update, processed_rounds, processed_games,
           tournament_status, activeSeen, completedSeen, reobserved,
           roundPosts, gamePosts, standingsCount, standingsSentAt,
           prevStatus, lastOutcome >>

extractVars == << url, idResult >>
configVars  == << cfgFile, cfgResult >>
sendVars    == << sendInput, lastSend >>
loopVars    == << pc, now, config, last_standings_update, processed_rounds,
                  processed_games, tournament_status, activeSeen,
                  completedSeen, reobserved, roundPosts, gamePosts,
                  standingsCount, standingsSentAt, prevStatus,
                  lastOutcome >>

NoneValue == "None"

\* a str argument, and an argument that is not a str (None, bytes, ...)
Str(s)  == [isStr |-> TRUE, s |-> s]
NotAStr == [isStr |-> FALSE, s |-> << >>]

(***************************************************************************)
(* Bounds of the model.                                                    *)
(***************************************************************************)
MaxUrlLen == 5      \* longest enumerated URL, in tokens
MaxCfgLen == 5      \* longest enumerated config.json text, in tokens
MaxPolls  == 6      \* sleeps the loop is followed for

(***************************************************************************)
(* extract_tournament_id  (monitor_tournament.py:54-62)                    *)
(*                                                                         *)
(* A URL is a sequence of tokens: "/", the literal word "tournaments",     *)
(* single decimal digits, and other text.                                  *)
(***************************************************************************)
Digits == {"0", "1", "2", "3", "4", "5", "6", "7", "8", "9"}

DigitVal(c) ==
    CASE c = "0" -> 0 [] c = "1" -> 1 [] c = "2" -> 2 [] c = "3" -> 3
      [] c = "4" -> 4 [] c = "5" -> 5 [] c = "6" -> 6 [] c = "7" -> 7
      [] c = "8" -> 8 [] c = "9" -> 9

UrlTokens == {"/", "tournaments", "0", "7", "x"}

IsString(u) == u.isStr

\* the function's outcomes: an int, None, or an exception that escapes
ReturnsInt(n) == [done |-> TRUE, raised |-> FALSE, found |-> TRUE, id |-> n]
ReturnsNone   == [done |-> TRUE, raised |-> FALSE, found |-> FALSE, id |-> 0]
NotCalled     == [done |-> FALSE, raised |-> FALSE, found |-> FALSE, id |-> 0]

\* r'/tournaments/(\d+)' matched with its first character at position i
MatchAt(s, i) ==
    /\ i >= 1
    /\ i + 3 <= Len(s)
    /\ s[i] = "/"
    /\ s[i + 1] = "tournaments"
    /\ s[i + 2] = "/"
    /\ s[i + 3] \in Digits

\* re.search scans left to right and returns the leftmost match
HasMatch(s) == \E i \in 1..Len(s) : MatchAt(s, i)

FirstMatch(s) == CHOOSE i \in 1..Len(s) :
                    /\ MatchAt(s, i)
                    /\ \A k \in 1..(i - 1) : ~MatchAt(s, k)

\* \d+ is greedy: the last index of the digit run that starts at j
RECURSIVE DigitRunEnd(_, _)
DigitRunEnd(s, j) ==
    IF j + 1 <= Len(s) /\ s[j + 1] \in Digits
    THEN DigitRunEnd(s, j + 1)
    ELSE j

\* int(): decimal value of a digit sequence, read left to right
RECURSIVE IntOf(_, _)
IntOf(ds, acc) ==
    IF ds = << >> THEN acc
    ELSE IntOf(Tail(ds), acc * 10 + DigitVal(Head(ds)))

\* match.group(1)
Group1(s) ==
    LET i == FirstMatch(s)
    IN  SubSeq(s, i + 3, DigitRunEnd(s, i + 3))

\* Variant of the pattern that also demands the slash after the digits.
extract_tournament_id_trailing_slash(u) ==
    IF ~IsString(u)
    THEN ReturnsNone
    ELSE IF /\ HasMatch(u.s)
            /\ DigitRunEnd(u.s, FirstMatch(u.s) + 3) + 1 <= Len(u.s)
            /\ u.s[DigitRunEnd(u.s, FirstMatch(u.s) + 3) + 1] = "/"
         THEN ReturnsInt(IntOf(Group1(u.s), 0))
         ELSE ReturnsNone

extract_tournament_id(u) ==
    IF ~IsString(u)
    THEN \* re.search raises TypeError, caught at line 61
         ReturnsNone
    ELSE IF HasMatch(u.s)
         THEN ReturnsInt(IntOf(Group1(u.s), 0))
         ELSE ReturnsNone

RECURSIVE SeqsUpTo(_, _)
SeqsUpTo(S, n) ==
    IF n = 0 THEN { << >> }
    ELSE LET shorter == SeqsUpTo(S, n - 1)
         IN  shorter \cup { Append(s, x) : s \in shorter, x \in S }

\* "https://matchplay.events/tournaments/12345/view"
ExampleUrl == << "x", "/", "tournaments", "/", "1", "2", "3", "4", "5", "/", "x" >>
\* "https://matchplay.events/no-id-here"
NoIdUrl    == << "x", "/", "x" >>

UrlInputs == { Str(t) : t \in SeqsUpTo(UrlTokens, MaxUrlLen) \cup {ExampleUrl, NoIdUrl} }
             \cup {NotAStr}

ExtractTournamentId ==
    /\ ~idResult.done
    /\ idResult' = extract_tournament_id(url)
    /\ UNCHANGED << url, configVars, sendVars, loopVars >>

(***************************************************************************)
(* load_config  (monitor_tournament.py:35-51)                              *)
(*                                                                         *)
(* config.json is either absent, present but not openable, or present with *)
(* a content.  The content is a sequence of tokens: braces, commas, the    *)
(* two settings the monitor reads (each token a whole "key": value pair,   *)
(* the nesting under "api" / "notifications" folded into the key), the     *)
(* JSON literal null, and a byte that is not valid UTF-8.                  *)
(***************************************************************************)
DEFAULT_POLL_INTERVAL_SECONDS == 300
DEFAULT_STANDINGS_INTERVAL_MINUTES == 30

PollKey  == "api.poll_interval_seconds"
StandKey == "notifications.standings_update_interval_minutes"

PairTokens == {"p900", "s75"}
CfgTokens  == {"{", "}", ",", "null", "xFF"} \cup PairTokens

PairKey(t) == IF t = "p900" THEN PollKey ELSE StandKey
PairVal(t) == IF t = "p900" THEN 900 ELSE 75

\* text-mode read(): the bytes must decode, else UnicodeDecodeError
Decodable(text) == \A i \in 1..Len(text) : text[i] # "xFF"

IsObjectText(text) ==
    /\ Len(text) >= 2
    /\ text[1] = "{"
    /\ text[Len(text)] = "}"
    /\ LET body == SubSeq(text, 2, Len(text) - 1)
       IN  /\ Len(body) = 0 \/ Len(body) % 2 = 1
           /\ \A i \in 1..Len(body) :
                 IF i % 2 = 1 THEN body[i] \in PairTokens ELSE body[i] = ","

\* what json.load accepts; anything else is a JSONDecodeError
WellFormed(text) == text = << "null" >> \/ IsObjectText(text)

\* dict construction: members are stored left to right, a repeated key
\* overwrites the earlier member
RECURSIVE ParseMembers(_, _)
ParseMembers(body, acc) ==
    IF body = << >> THEN acc
    ELSE IF Head(body) = "," THEN ParseMembers(Tail(body), acc)
    ELSE ParseMembers(Tail(body),
            [k \in DOMAIN acc \cup {PairKey(Head(body))} |->
                IF k = PairKey(Head(body)) THEN PairVal(Head(body)) ELSE acc[k]])

EmptyDict == [k \in {} |-> 0]

\* load_config's outcomes: a dict, None, or an exception that escapes
ReturnsDict(d)  == [done |-> TRUE, raised |-> FALSE, kind |-> "dict", dict |-> d]
ReturnsNull     == [done |-> TRUE, raised |-> FALSE, kind |-> "none", dict |-> EmptyDict]
Raises          == [done |-> TRUE, raised |-> TRUE, kind |-> "exc", dict |-> EmptyDict]
ConfigNotLoaded == [done |-> FALSE, raised |-> FALSE, kind |-> "none", dict |-> EmptyDict]

JsonLoad(text) ==
    IF text = << "null" >> THEN ReturnsNull
    ELSE ReturnsDict(ParseMembers(SubSeq(text, 2, Len(text) - 1), EmptyDict))

DefaultConfig ==
    [k \in {PollKey, StandKey} |->
        IF k = PollKey THEN DEFAULT_POLL_INTERVAL_SECONDS
        ELSE DEFAULT_STANDINGS_INTERVAL_MINUTES]

load_config(file) ==
    IF file.state = "missing"
    THEN \* FileNotFoundError, caught at line 41
         ReturnsDict(DefaultConfig)
    ELSE IF file.state = "unreadable"
    THEN \* PermissionError / IsADirectoryError: not in the except clause
         Raises
    ELSE IF ~Decodable(file.text)
    THEN \* UnicodeDecodeError: a ValueError, but not a JSONDecodeError
         Raises
    ELSE IF ~WellFormed(file.text)
    THEN \* JSONDecodeError, caught at line 41
         ReturnsDict(DefaultConfig)
    ELSE JsonLoad(file.text)

CfgInputs ==
    { [state |-> "missing", text |-> << >>],
      [state |-> "unreadable", text |-> << >>] }
    \cup { [state |-> "present", text |-> t] : t \in SeqsUpTo(CfgTokens, MaxCfgLen) }

LoadConfig ==
    /\ ~cfgResult.done
    /\ cfgResult' = load_config(cfgFile)
    /\ UNCHANGED << cfgFile, extractVars, sendVars, loopVars >>

(***************************************************************************)
(* SlackNotifier.send_message  (slack_notifier.py:34-75)                   *)
(*                                                                         *)
(* resp is what requests.post does: it raises a RequestException           *)
(* (connection error, timeout, ...) or returns a response with a status.   *)
(***************************************************************************)
ConnectionFailed == [exc |-> TRUE, status |-> 0]
Http(code)       == [exc |-> FALSE, status |-> code]

WebhookResponses ==
    {ConnectionFailed} \cup
    { Http(c) : c \in {200, 201, 204, 300, 304, 400, 403, 404, 429, 500, 503} }

\* lines 49-60: the JSON body's keys
Payload(channel, blocks, attachments) ==
    {"text"} \cup (IF channel THEN {"channel"} ELSE {})
             \cup (IF blocks THEN {"blocks"} ELSE {})
             \cup (IF attachments THEN {"attachments"} ELSE {})

\* Response.raise_for_status(): HTTPError for 4xx and 5xx, nothing otherwise
RaisesForStatus(status) == 400 <= status /\ status < 600

send_message(channel, blocks, attachments, resp) ==
    [ done    |-> TRUE,
      payload |-> Payload(channel, blocks, attachments),
      posts   |-> 1,                       \* the single requests.post call
      ok      |-> ~resp.exc /\ ~RaisesForStatus(resp.status),
      raised  |-> FALSE ]                  \* RequestException is caught

NothingSent ==
    [done |-> FALSE, payload |-> {}, posts |-> 0, ok |-> FALSE, raised |-> FALSE]

\* each notify_* method builds its blocks and ends in one send_message call
notify_round_start(channel, resp)          == send_message(channel, TRUE, FALSE, resp)
notify_game_results(channel, resp)         == send_message(channel, TRUE, FALSE, resp)
notify_tournament_standings(channel, resp) == send_message(channel, TRUE, FALSE, resp)

SendInputs ==
    [channel : BOOLEAN, blocks : BOOLEAN, attachments : BOOLEAN,
     resp : WebhookResponses]

SendMessage ==
    /\ ~lastSend.done
    /\ lastSend' = send_message(sendInput.channel, sendInput.blocks,
                                sendInput.attachments, sendInput.resp)
    /\ UNCHANGED << sendInput, extractVars, configVars, loopVars >>

(***************************************************************************)
(* Module globals  (monitor_tournament.py:28-32)                           *)
(***************************************************************************)
\* Variant with the sign of the offset flipped.
InitLastStandingsUpdate_future(t) == t + 60

\* last_standings_update = datetime.now() - timedelta(hours=1)
InitLastStandingsUpdate(t) == t - 60

\* Variant that starts with an id already recorded.
InitProcessedRounds_stale == {"A"}

\* processed_rounds = set()
InitProcessedRounds == {}

\* Variant that starts with an id already recorded.
InitProcessedGames_stale == {"G1"}

\* processed_games = set()
InitProcessedGames == {}

\* tournament_status = None
InitTournamentStatus == NoneValue

(***************************************************************************)
(* The polling loop (specification 4.1 steps 1-5, 7 FetchError).           *)
(*                                                                         *)
(* What the tournament API answers is outside the program: each poll       *)
(* observes an arbitrary tournament status, an arbitrary status per round  *)
(* and per game, or fails.                                                 *)
(***************************************************************************)
Rounds == {"A", "B"}
Games  == {"G1", "G2"}

TournamentStatuses == {"not_started", "in_progress", "completed"}
RoundStatuses      == {"pending", "active", "completed"}
GameStatuses       == {"pending", "completed"}

\* time.sleep takes seconds, the clock of the model counts minutes
PollMinutes(cfg)  == cfg[PollKey] \div 60
StandMinutes(cfg) == cfg[StandKey]

\* the configurations the loop is run with: the built-in defaults, and a
\* config.json that sets both intervals
LoopConfigFiles ==
    { [state |-> "missing", text |-> << >>],
      [state |-> "present", text |-> << "{", "p900", ",", "s75", "}" >>] }

LoopConfigs == { load_config(f).dict : f \in LoopConfigFiles }

\* the webhook's answers the loop is followed under
LoopResponses == {ConnectionFailed, Http(200)}

\* step 2: rounds not in SeenRounds whose status is active
NewActiveRounds(obs, seen) == { r \in Rounds : obs[r] = "active" /\ r \notin seen }

\* step 3: games not in SeenGames whose status is completed
NewCompletedGames(obs, seen) == { g \in Games : obs[g] = "completed" /\ g \notin seen }

\* Variant of step 4 that throttles on the poll interval.
StandingsDue_pollinterval(t, lsu, cfg) == t - lsu >= PollMinutes(cfg)

\* step 4: now - LastStandingsUpdate >= standings_update_interval
StandingsDue(t, lsu, cfg) == t - lsu >= StandMinutes(cfg)

\* Variant of step 5 that never ends the loop.
Terminal_never(status) == FALSE

\* step 5: the terminal tournament status
Terminal(status) == status = "completed"

\* Variant that leaves the loop before the standings step.
TakesStandingsStep_exitfirst(status, t, lsu, cfg) ==
    ~Terminal(status) /\ StandingsDue(t, lsu, cfg)

\* step 4 comes before the exit of step 5, whatever status step 1 observed
TakesStandingsStep(status, t, lsu, cfg) == StandingsDue(t, lsu, cfg)

\* Variant in which a fetch failure ends the run.
AfterFetchError_fatal == "done"

\* FetchError: the loop continues on the next scheduled tick
AfterFetchError == "sleep"

\* steps 1-3 of an iteration whose first fetch succeeded
ObserveAndNotify(obsStatus, obsRounds, obsGames, resp) ==
    LET newRounds == NewActiveRounds(obsRounds, processed_rounds)
        newGames  == NewCompletedGames(obsGames, processed_games)
        active    == { r \in Rounds : obsRounds[r] = "active" }
        completed == { g \in Games : obsGames[g] = "completed" }
    IN  /\ prevStatus' = tournament_status
        /\ tournament_status' = obsStatus
        /\ roundPosts' = [r \in Rounds |-> roundPosts[r] +
                            IF r \in newRounds
                            THEN notify_round_start(FALSE, resp).posts ELSE 0]
        /\ processed_rounds' = processed_rounds \cup newRounds
        /\ gamePosts' = [g \in Games |-> gamePosts[g] +
                            IF g \in newGames
                            THEN notify_game_results(FALSE, resp).posts ELSE 0]
        /\ processed_games' = processed_games \cup newGames
        /\ reobserved' = (\/ reobserved
                          \/ active \cap processed_rounds # {}
                          \/ completed \cap processed_games # {})
        /\ activeSeen' = activeSeen \cup active
        /\ completedSeen' = completedSeen \cup completed

Observations ==
    [status : TournamentStatuses, rounds : [Rounds -> RoundStatuses],
     games : [Games -> GameStatuses]]

\* the webhook answers that can make a difference to this iteration
ResponsesFor(o) ==
    IF \/ NewActiveRounds(o.rounds, processed_rounds) # {}
       \/ NewCompletedGames(o.games, processed_games) # {}
       \/ TakesStandingsStep(o.status, now, last_standings_update, config)
    THEN LoopResponses ELSE {Http(200)}

\* an iteration none of whose fetches fails
IterationCompletes ==
    /\ pc = "iterate"
    /\ \E o \in Observations : \E resp \in ResponsesFor(o) :
          /\ ObserveAndNotify(o.status, o.rounds, o.games, resp)
          /\ IF TakesStandingsStep(o.status, now, last_standings_update, config)
             THEN /\ standingsCount' = standingsCount +
                        notify_tournament_standings(FALSE, resp).posts
                  /\ standingsSentAt' = now
                  /\ last_standings_update' = now
             ELSE UNCHANGED << standingsCount, standingsSentAt,
                               last_standings_update >>
          /\ pc' = IF Terminal(o.status) THEN "done" ELSE "sleep"
    /\ lastOutcome' = "ok"
    /\ UNCHANGED << now, config, extractVars, configVars, sendVars >>

\* an iteration whose standings fetch (step 4) fails
IterationStandingsFetchFails ==
    /\ pc = "iterate"
    /\ \E o \in Observations : \E resp \in ResponsesFor(o) :
          /\ TakesStandingsStep(o.status, now, last_standings_update, config)
          /\ ObserveAndNotify(o.status, o.rounds, o.games, resp)
    /\ pc' = AfterFetchError
    /\ lastOutcome' = "standings_fetch_failed"
    /\ UNCHANGED << standingsCount, standingsSentAt, last_standings_update,
                    now, config, extractVars, configVars, sendVars >>

\* an iteration whose first fetch (step 1) fails
IterationFetchFails ==
    /\ pc = "iterate"
    /\ pc' = AfterFetchError
    /\ lastOutcome' = "fetch_failed"
    /\ UNCHANGED << now, config, last_standings_update, processed_rounds,
                    processed_games, tournament_status, activeSeen,
                    completedSeen, reobserved, roundPosts, gamePosts,
                    standingsCount, standingsSentAt, prevStatus,
                    extractVars, configVars, sendVars >>

\* step 5: time.sleep(poll_interval_seconds), then the next iteration
Sleep ==
    /\ pc = "sleep"
    /\ now + PollMinutes(config) <= MaxPolls * PollMinutes(config)
    /\ now' = now + PollMinutes(config)
    /\ pc' = "iterate"
    /\ lastOutcome' = "none"
    /\ UNCHANGED << config, last_standings_update, processed_rounds,
                    processed_games, tournament_status, activeSeen,
                    completedSeen, reobserved, roundPosts, gamePosts,
                    standingsCount, standingsSentAt, prevStatus,
                    extractVars, configVars, sendVars >>

(***************************************************************************)
(* Specifications.                                                         *)
(***************************************************************************)
ExtractIdle == url = NotAStr /\ idResult = NotCalled
ConfigIdle  == cfgFile = [state |-> "missing", text |-> << >>] /\ cfgResult = ConfigNotLoaded
SendIdle    ==
    /\ sendInput = [channel |-> FALSE, blocks |-> FALSE, attachments |-> FALSE,
                    resp |-> Http(200)]
    /\ lastSend = NothingSent

LoopStart ==
    /\ pc = "iterate"
    /\ now = 0
    /\ config \in LoopConfigs
    /\ last_standings_update = InitLastStandingsUpdate(0)
    /\ processed_rounds = InitProcessedRounds
    /\ processed_games = InitProcessedGames
    /\ tournament_status = InitTournamentStatus
    /\ prevStatus = NoneValue
    /\ activeSeen = {}
    /\ completedSeen = {}
    /\ reobserved = FALSE
    /\ roundPosts = [r \in Rounds |-> 0]
    /\ gamePosts = [g \in Games |-> 0]
    /\ standingsCount = 0
    /\ standingsSentAt = 0
    /\ lastOutcome = "none"

LoopIdle ==
    /\ LoopStart
    /\ config = DefaultConfig

\* the monitoring loop
Init == LoopStart /\ ExtractIdle /\ ConfigIdle /\ SendIdle
Next == IterationCompletes \/ IterationStandingsFetchFails
            \/ IterationFetchFails \/ Sleep
Spec == Init /\ [][Next]_vars

\* extract_tournament_id applied to every bounded argument
InitExtract == url \in UrlInputs /\ idResult = NotCalled
                 /\ ConfigIdle /\ SendIdle /\ LoopIdle
NextExtract == ExtractTournamentId
SpecExtract == InitExtract /\ [][NextExtract]_vars

\* load_config applied to every bounded config.json
InitConfig == cfgFile \in CfgInputs /\ cfgResult = ConfigNotLoaded
                 /\ ExtractIdle /\ SendIdle /\ LoopIdle
NextConfig == LoadConfig
SpecConfig == InitConfig /\ [][NextConfig]_vars

\* send_message applied to every message shape and webhook answer
InitSend == sendInput \in SendInputs /\ lastSend = NothingSent
                 /\ ExtractIdle /\ ConfigIdle /\ LoopIdle
NextSend == SendMessage
SpecSend == InitSend /\ [][NextSend]_vars

(***************************************************************************)
(* Properties of the polling loop (checked under Spec).                    *)
(***************************************************************************)
Observed == lastOutcome \in {"ok", "standings_fetch_failed"}

\* C1: over any sequence of polls the number of round-start notifications
\* emitted for a round R is 1 if some poll has observed R active and 0
\* otherwise: R is announced in the poll that first observes it active and
\* never again, whatever later polls observe.
C1_RoundAnnouncedExactlyOnce ==
    /\ \A r \in Rounds : roundPosts[r] = IF r \in activeSeen THEN 1 ELSE 0
    /\ processed_rounds = activeSeen

\* poll 1 saw A active, a later poll saw A again and B newly active
C1_Witness ==
    /\ reobserved
    /\ completedSeen = {}
    /\ processed_rounds = {"A", "B"}
    /\ roundPosts["A"] = 1
    /\ roundPosts["B"] = 1

\* C2: over any sequence of polls the number of game-result notifications
\* emitted for a game G is 1 if some poll has observed G completed and 0
\* while G has only been observed as not completed: G is reported in the
\* poll that first observes it completed and never again.
C2_GameReportedExactlyOnce ==
    /\ \A g \in Games : gamePosts[g] = IF g \in completedSeen THEN 1 ELSE 0
    /\ processed_games = completedSeen

\* G1 was reported, observed again, and G2 is still pending
C2_Witness ==
    /\ reobserved
    /\ activeSeen = {}
    /\ processed_games = {"G1"}
    /\ gamePosts["G1"] = 1
    /\ gamePosts["G2"] = 0
    /\ now > 0

\* C3: a standings notification is sent in an iteration only when
\* now - LastStandingsUpdate >= interval, LastStandingsUpdate is then set to
\* now, and so two successive standings notifications are at least the
\* configured interval apart, however many rounds and games were announced
\* in between.
C3_StandingsThrottled ==
    /\ [][ standingsCount' # standingsCount =>
             /\ standingsCount' = standingsCount + 1
             /\ now - last_standings_update >= config[StandKey]
             /\ last_standings_update' = now
             /\ standingsSentAt' = now
             /\ standingsCount > 0 => now - standingsSentAt >= config[StandKey] ]_vars
    /\ [][ last_standings_update' # last_standings_update =>
             standingsCount' = standingsCount + 1 ]_vars

\* two standings notifications, with games reported along the way
C3_Witness ==
    /\ standingsCount = 2
    /\ processed_games = Games
    /\ processed_rounds # {}

Is2xx(status) == 200 <= status /\ status < 300

\* C7: for a notification at most one webhook POST is made; when the POST
\* fails or returns a non-2xx response, send_message returns False, without
\* raising and without a second POST.
C7_FailedPostReturnsFalse ==
    lastSend.done =>
        /\ lastSend.posts <= 1
        /\ ~lastSend.raised
        /\ (sendInput.resp.exc \/ ~Is2xx(sendInput.resp.status)) => ~lastSend.ok

\* the decimal value of s[lo..hi], by the weight of each position
RECURSIVE PositionalValue(_, _, _)
PositionalValue(s, lo, hi) ==
    IF lo > hi THEN 0
    ELSE DigitVal(s[hi]) + 10 * PositionalValue(s, lo, hi - 1)

\* s[i..] starts with /tournaments/ and the digits s[i+3..j], and no digit
\* follows them
SegmentAt(s, i, j) ==
    /\ i >= 1
    /\ j >= i + 3
    /\ j <= Len(s)
    /\ s[i] = "/" /\ s[i + 1] = "tournaments" /\ s[i + 2] = "/"
    /\ \A k \in (i + 3)..j : s[k] \in Digits
    /\ j = Len(s) \/ s[j + 1] \notin Digits

Unparsable(file) ==
    file.state = "present" /\ ~(Decodable(file.text) /\ WellFormed(file.text))

\* C9: load_config never raises on a missing or unparsable config file and
\* returns the built-in defaults (300 s, 30 min) in both cases; when the
\* file loads it returns the parsed content.
C9_DefaultsOnBadConfig ==
    cfgResult.done =>
        /\ (cfgFile.state = "missing" \/ Unparsable(cfgFile)) =>
              /\ ~cfgResult.raised
              /\ cfgResult.kind = "dict"
              /\ cfgResult.dict = DefaultConfig
              /\ cfgResult.dict[PollKey] = 300
              /\ cfgResult.dict[StandKey] = 30
        /\ (cfgFile.state = "present" /\ ~Unparsable(cfgFile)) =>
              /\ ~cfgResult.raised
              /\ cfgResult.kind = "none" <=> cfgFile.text = << "null" >>
              /\ cfgResult.kind = "dict" =>
                    LET text    == cfgFile.text
                        members == { i \in 1..Len(text) : text[i] \in PairTokens }
                    IN  /\ DOMAIN cfgResult.dict = { PairKey(text[i]) : i \in members }
                        /\ \A i \in members :
                              (\A j \in members : j > i => PairKey(text[j]) # PairKey(text[i]))
                              => cfgResult.dict[PairKey(text[i])] = PairVal(text[i])

====
